---- MODULE Spec2Model ----
(***************************************************************************)
(* Heap-level model of the three singly-linked lists of lists-rs:          *)
(*   second.rs  List<T>  exclusively owned stack (Option<Box<Node>>)       *)
(*   fifth.rs   List<T>  owned queue with a raw tail pointer               *)
(*   third.rs   List<T>  persistent list on Rc<Node>                       *)
(* Every node lives in a heap cell with an address; Box::new / Rc::new     *)
(* pick any free cell.  Destructors are modelled with an explicit stack of *)
(* node-destructor frames so that their nesting depth is observable.       *)
(***************************************************************************)
EXTENDS Integers, Sequences, FiniteSets, TLC

MaxNodes == 3      \* heap cells available to the stack and to the queue
MaxCells == 3      \* heap cells available to the persistent list
MaxElem == 2       \* element values are 1..MaxElem
MaxLists == 2      \* list values (handles) of the persistent list

NULL == 0
Addr == 1..MaxNodes
Elem == 1..MaxElem

None == <<>>
Some(x) == <<x>>

Last(s) == s[Len(s)]
Front(s) == SubSeq(s, 1, Len(s) - 1)

VARIABLES
    s_heap,     \* second.rs: Addr -> Node cell
    s_head,     \* second.rs: List.head
    s_ret,      \* second.rs: value returned by the last pop, peek or next
    s_pc,       \* second.rs: "idle" | "iter" | "iter_mut" | "into_iter" |
                \*            "for_done" | "drop_loop" | "drop_glue"
    s_elem,     \* second.rs: local `elem` of Drop::drop
    s_dstack,   \* second.rs: nodes whose destructor is running, innermost last
    s_pending,  \* second.rs: elements pushed and not yet popped, oldest first
    s_iter,     \* second.rs: Iter.next / IterMut.next, the node to yield next
    s_refs,     \* second.rs: nodes whose element the live iterator has yielded
    s_vals,     \* second.rs: values the running `for el in list` has yielded
    s_done,     \* second.rs: the live iterator has returned None
    s_exhausted, \* second.rs: an iterator from iter() on this list returned None
    q_heap,     \* fifth.rs: Addr -> Node cell
    q_head,     \* fifth.rs: List.head
    q_tail,     \* fifth.rs: List.tail (raw pointer)
    q_ret,      \* fifth.rs: value returned by the last pop
    q_pc,       \* fifth.rs: "idle" | "drop_glue"
    q_dstack,   \* fifth.rs: nodes whose destructor is running, innermost last
    q_ub,       \* fifth.rs: a write through a dangling tail pointer happened
    q_pending,  \* fifth.rs: elements pushed and not yet popped, oldest first
    q_emptied,  \* fifth.rs: some pop since new() removed the only remaining node
    p_heap,     \* third.rs: RcAddr -> Rc<Node> cell with its strong count
    p_lists,    \* third.rs: the list values that exist
    p_head,     \* third.rs: ListId -> List.head
    p_pc,       \* third.rs: "idle" | "tail" | "drop_loop" | "drop_exit"
    p_cur,      \* third.rs: local `head` of Drop::drop
    p_self,     \* third.rs: self.head of the list value being dropped
    p_rel,      \* third.rs: the Rc handle Rc::drop is releasing, or NULL
    p_dstack,   \* third.rs: nodes whose destructor is running, innermost last
    p_abs,      \* third.rs: ListId -> the sequence the list value denotes
    p_pre       \* third.rs: heap and self.head as the running tail() found them

s_vars == <<s_heap, s_head, s_ret, s_pc, s_elem, s_dstack, s_pending,
            s_iter, s_refs, s_vals, s_done, s_exhausted>>
s_iter_vars == <<s_iter, s_refs, s_vals, s_done, s_exhausted>>
q_vars == <<q_heap, q_head, q_tail, q_ret, q_pc, q_dstack, q_ub, q_pending, q_emptied>>

p_vars == <<p_heap, p_lists, p_head, p_pc, p_cur, p_self, p_rel, p_dstack, p_abs, p_pre>>

\* A cell of an owned list: struct Node { elem, next } plus allocation state.
Node(e, n) == [live |-> TRUE, elem |-> e, next |-> n]
FreeCell == [live |-> FALSE, elem |-> 0, next |-> NULL]

FreeAddrs(heap) == {a \in DOMAIN heap : ~heap[a].live}

\* Elements met by following next from link l, at most k hops.
RECURSIVE Walk(_, _, _)
Walk(heap, l, k) ==
    IF l = NULL \/ k = 0 THEN <<>>
    ELSE <<heap[l].elem>> \o Walk(heap, heap[l].next, k - 1)

\* Addresses met by following next from link l, at most k hops.
RECURSIVE Chain(_, _, _)
Chain(heap, l, k) ==
    IF l = NULL \/ k = 0 THEN <<>>
    ELSE <<l>> \o Chain(heap, heap[l].next, k - 1)

RECURSIVE Reverse(_)
Reverse(s) == IF s = <<>> THEN <<>> ELSE Reverse(Tail(s)) \o <<Head(s)>>

(***************************************************************************)
(* second.rs: the owned stack                                              *)
(***************************************************************************)
second_new ==
    /\ s_heap = [a \in Addr |-> FreeCell]
    /\ s_head = NULL
    /\ s_ret = None
    /\ s_pc = "idle"
    /\ s_elem = NULL
    /\ s_dstack = <<>>
    /\ s_pending = <<>>
    /\ s_iter = NULL
    /\ s_refs = <<>>
    /\ s_vals = <<>>
    /\ s_done = FALSE
    /\ s_exhausted = FALSE

\* push: new_node = Box::new(Node{elem, next: self.head.take()}); head = Some(new_node)
second_push(e) ==
    /\ s_pc = "idle"
    /\ \E a \in FreeAddrs(s_heap) :
        /\ s_heap' = [s_heap EXCEPT ![a] = Node(e, s_head)]
        /\ s_head' = a
    /\ s_pending' = Append(s_pending, e)
    /\ UNCHANGED <<s_ret, s_pc, s_elem, s_dstack, s_iter_vars>>

\* pop that forgets self.head = node.next after the take().
second_pop_result_lost(heap, head) ==
    IF head = NULL
    THEN <<None, NULL, heap>>
    ELSE <<Some(heap[head].elem), NULL, [heap EXCEPT ![head] = FreeCell]>>

\* What pop returns and leaves behind: <<ret, head, heap>>.
second_pop_result(heap, head) ==
    IF head = NULL
    THEN <<None, NULL, heap>>
    ELSE <<Some(heap[head].elem), heap[head].next, [heap EXCEPT ![head] = FreeCell]>>

\* pop: self.head.take().map(|node| { self.head = node.next; node.elem })
second_pop ==
    /\ s_pc = "idle"
    /\ LET r == second_pop_result(s_heap, s_head) IN
        /\ s_ret' = r[1]
        /\ s_head' = r[2]
        /\ s_heap' = r[3]
    /\ s_pending' = IF s_pending = <<>> THEN <<>> ELSE Front(s_pending)
    /\ UNCHANGED <<s_pc, s_elem, s_dstack, s_iter_vars>>

\* Drop::drop that does not take the head: the chain is left to the field glue.
second_drop_take_none(head) == <<NULL, head>>

\* Drop::drop entry: let mut elem = self.head.take();  gives <<elem, head>>
second_drop_take(head) == <<head, NULL>>

\* The list goes out of scope, also at the end of `for el in list`.
second_drop_start ==
    /\ s_pc \in {"idle", "for_done"}
    /\ LET t == second_drop_take(s_head) IN
        /\ s_elem' = t[1]
        /\ s_head' = t[2]
    /\ s_pc' = "drop_loop"
    /\ UNCHANGED <<s_heap, s_ret, s_dstack, s_pending, s_iter_vars>>

\* while let Some(boxed) = elem { elem = boxed.next; }  one iteration, or the
\* loop exit, after which the compiler's glue drops the field self.head.
second_drop_loop ==
    /\ s_pc = "drop_loop"
    /\ s_dstack = <<>>
    /\ IF s_elem # NULL
       THEN /\ s_elem' = s_heap[s_elem].next
            /\ s_heap' = [s_heap EXCEPT ![s_elem].next = NULL]
            /\ s_dstack' = <<s_elem>>
            /\ UNCHANGED <<s_head, s_pc>>
       ELSE /\ s_pc' = "drop_glue"
            /\ s_dstack' = IF s_head = NULL THEN <<>> ELSE <<s_head>>
            /\ s_head' = NULL
            /\ UNCHANGED <<s_heap, s_elem>>
    /\ UNCHANGED <<s_ret, s_pending, s_iter_vars>>

\* Destructor of Box<Node>, one step of the innermost frame: drop the field
\* next (entering the next node's destructor) or, once next is empty, free.
second_box_glue ==
    /\ s_dstack # <<>>
    /\ LET n == Last(s_dstack) IN
        IF s_heap[n].next # NULL
        THEN /\ s_dstack' = Append(s_dstack, s_heap[n].next)
             /\ s_heap' = [s_heap EXCEPT ![n].next = NULL]
        ELSE /\ s_dstack' = Front(s_dstack)
             /\ s_heap' = [s_heap EXCEPT ![n] = FreeCell]
    /\ UNCHANGED <<s_head, s_ret, s_pc, s_elem, s_pending, s_iter_vars>>

\* The dropped list is gone; the program makes a fresh one with List::new().
second_renew ==
    /\ s_pc = "drop_glue"
    /\ s_dstack = <<>>
    /\ s_ret' = None
    /\ s_pc' = "idle"
    /\ s_pending' = <<>>
    /\ s_vals' = <<>>
    /\ s_exhausted' = FALSE
    /\ UNCHANGED <<s_heap, s_head, s_elem, s_dstack, s_iter, s_refs, s_done>>

\* A peek that reports a default value instead of absence.
second_peek_result_default(heap, head) ==
    IF head = NULL THEN Some(0) ELSE Some(heap[head].elem)

\* peek: self.head.as_ref().map(|elem| &elem.elem)
second_peek_result(heap, head) ==
    IF head = NULL THEN None ELSE Some(heap[head].elem)

second_peek ==
    /\ s_pc = "idle"
    /\ s_ret' = second_peek_result(s_heap, s_head)
    /\ UNCHANGED <<s_heap, s_head, s_pc, s_elem, s_dstack, s_pending, s_iter_vars>>

\* A peek_mut that hands out a reference to a copy of the element.
second_peek_mut_store_copy(heap, head, v) == heap

\* The heap after *value = v through peek_mut: self.head.as_mut().map(|node| &mut node.elem)
second_peek_mut_store(heap, head, v) ==
    IF head = NULL THEN heap ELSE [heap EXCEPT ![head].elem = v]

\* list.peek_mut().map(|value| *value = v)
second_peek_mut(v) ==
    /\ s_pc = "idle"
    /\ s_heap' = second_peek_mut_store(s_heap, s_head, v)
    /\ s_ret' = IF s_head = NULL THEN None ELSE Some(v)
    /\ s_pending' = IF s_pending = <<>> THEN <<>> ELSE Append(Front(s_pending), v)
    /\ UNCHANGED <<s_head, s_pc, s_elem, s_dstack, s_iter_vars>>

\* A walk that stops at the first node.
push_back_walk_first(heap, l, k) == l

\* push_back of first.rs and second.rs: let mut tail = &mut self.head;
\* loop { match tail { None => break, Some(more) => tail = &mut more.next } }
\* From node l, the node whose next is the link the loop stops at; k bounds
\* the number of iterations.
RECURSIVE push_back_walk(_, _, _)
push_back_walk(heap, l, k) ==
    IF heap[l].next = NULL \/ k = 0 THEN l
    ELSE push_back_walk(heap, heap[l].next, k - 1)

\* push_back: link = Some(Box::new(Node{elem, next: None})); walk; *tail = link
second_push_back(e) ==
    /\ s_pc = "idle"
    /\ \E a \in FreeAddrs(s_heap) :
        LET h1 == [s_heap EXCEPT ![a] = Node(e, NULL)] IN
        IF s_head = NULL
        THEN /\ s_head' = a
             /\ s_heap' = h1
        ELSE /\ s_head' = s_head
             /\ s_heap' = [h1 EXCEPT ![push_back_walk(s_heap, s_head, MaxNodes)].next = a]
    /\ s_pending' = <<e>> \o s_pending
    /\ UNCHANGED <<s_ret, s_pc, s_elem, s_dstack, s_iter_vars>>

\* An iterator that stays exhausted once one has been exhausted.
second_iter_cursor_once(head, exhausted) == IF exhausted THEN NULL ELSE head

\* iter: Iter { next: self.head.as_deref() }
second_iter_cursor(head, exhausted) == head

second_iter ==
    /\ s_pc = "idle"
    /\ s_pc' = "iter"
    /\ s_iter' = second_iter_cursor(s_head, s_exhausted)
    /\ s_refs' = <<>>
    /\ s_done' = FALSE
    /\ UNCHANGED <<s_heap, s_head, s_ret, s_elem, s_dstack, s_pending, s_vals, s_exhausted>>

\* An advance that skips a node.
second_iter_advance_skip(heap, n) ==
    IF heap[n].next = NULL THEN NULL ELSE heap[heap[n].next].next

\* self.next = node.next.as_deref()
second_iter_advance(heap, n) == heap[n].next

\* Iter::next: self.next.map(|node| { self.next = node.next.as_deref(); &node.elem })
second_iter_next ==
    /\ s_pc = "iter"
    /\ IF s_iter = NULL
       THEN /\ s_ret' = None
            /\ s_done' = TRUE
            /\ s_exhausted' = TRUE
            /\ UNCHANGED <<s_iter, s_refs>>
       ELSE /\ s_ret' = Some(s_heap[s_iter].elem)
            /\ s_iter' = second_iter_advance(s_heap, s_iter)
            /\ s_refs' = Append(s_refs, s_iter)
            /\ UNCHANGED <<s_done, s_exhausted>>
    /\ UNCHANGED <<s_heap, s_head, s_pc, s_elem, s_dstack, s_pending, s_vals>>

\* iter_mut: IterMut { next: self.head.as_deref_mut() }
second_iter_mut ==
    /\ s_pc = "idle"
    /\ s_pc' = "iter_mut"
    /\ s_iter' = s_head
    /\ s_refs' = <<>>
    /\ s_done' = FALSE
    /\ UNCHANGED <<s_heap, s_head, s_ret, s_elem, s_dstack, s_pending, s_vals, s_exhausted>>

\* An advance that leaves the cursor where it is.
second_iter_mut_advance_stay(heap, n) == n

\* self.next = node.next.as_deref_mut()
second_iter_mut_advance(heap, n) == heap[n].next

\* IterMut::next: self.next.take().map(|node| {
\*     self.next = node.next.as_deref_mut(); &mut node.elem })
second_iter_mut_next ==
    /\ s_pc = "iter_mut"
    /\ IF s_iter = NULL
       THEN /\ s_ret' = None
            /\ s_done' = TRUE
            /\ UNCHANGED <<s_iter, s_refs>>
       ELSE /\ s_ret' = Some(s_heap[s_iter].elem)
            /\ s_iter' = second_iter_mut_advance(s_heap, s_iter)
            /\ s_refs' = Append(s_refs, s_iter)
            /\ UNCHANGED s_done
    /\ UNCHANGED <<s_heap, s_head, s_pc, s_elem, s_dstack, s_pending, s_vals, s_exhausted>>

\* *r = v through the i-th reference that iter_mut has yielded; all yielded
\* references stay usable while the iterator's borrow lasts.
second_write(i, v) ==
    /\ s_pc = "iter_mut"
    /\ i \in 1..Len(s_refs)
    /\ s_heap' = [s_heap EXCEPT ![s_refs[i]].elem = v]
    /\ s_pending' = LET j == Len(s_pending) - i + 1 IN
                    IF j \in 1..Len(s_pending) THEN [s_pending EXCEPT ![j] = v]
                    ELSE s_pending
    /\ UNCHANGED <<s_head, s_ret, s_pc, s_elem, s_dstack, s_iter_vars>>

\* The iterator and the references it yielded go out of scope.
second_iter_end ==
    /\ s_pc \in {"iter", "iter_mut"}
    /\ s_pc' = "idle"
    /\ s_iter' = NULL
    /\ s_refs' = <<>>
    /\ s_done' = FALSE
    /\ UNCHANGED <<s_heap, s_head, s_ret, s_elem, s_dstack, s_pending, s_vals, s_exhausted>>

\* An Iterator whose next() yields nothing.
second_next_result_empty(heap, head) == <<None, head, heap>>

\* impl Iterator for List: fn next(&mut self) { self.pop() }
second_next_result(heap, head) == second_pop_result(heap, head)

\* for el in list: the list is moved into the loop.
second_into_iter ==
    /\ s_pc = "idle"
    /\ s_pc' = "into_iter"
    /\ s_vals' = <<>>
    /\ UNCHANGED <<s_heap, s_head, s_ret, s_elem, s_dstack, s_pending,
                   s_iter, s_refs, s_done, s_exhausted>>

\* One turn of the loop: next() is called; Some(el) runs the body, None ends
\* the loop, after which the list is dropped.
second_for_next ==
    /\ s_pc = "into_iter"
    /\ LET r == second_next_result(s_heap, s_head) IN
        /\ s_ret' = r[1]
        /\ s_head' = r[2]
        /\ s_heap' = r[3]
        /\ s_vals' = IF r[1] = None THEN s_vals ELSE Append(s_vals, r[1][1])
        /\ s_pc' = IF r[1] = None THEN "for_done" ELSE "into_iter"
    /\ s_pending' = IF s_pending = <<>> THEN <<>> ELSE Front(s_pending)
    /\ UNCHANGED <<s_elem, s_dstack, s_iter, s_refs, s_done, s_exhausted>>

NextStack ==
    /\ \/ \E e \in Elem : second_push(e)
       \/ second_pop
       \/ second_peek
       \/ \E v \in Elem : second_peek_mut(v)
       \/ \E e \in Elem : second_push_back(e)
       \/ second_iter
       \/ second_iter_next
       \/ second_iter_mut
       \/ second_iter_mut_next
       \/ \E i \in 1..MaxNodes, v \in Elem : second_write(i, v)
       \/ second_iter_end
       \/ second_into_iter
       \/ second_for_next
       \/ second_drop_start
       \/ second_drop_loop
       \/ second_box_glue
       \/ second_renew
    /\ UNCHANGED <<q_vars, p_vars>>

(***************************************************************************)
(* fifth.rs: the owned queue with a raw tail pointer                       *)
(***************************************************************************)
fifth_new ==
    /\ q_heap = [a \in Addr |-> FreeCell]
    /\ q_head = NULL
    /\ q_tail = NULL
    /\ q_ret = None
    /\ q_pc = "idle"
    /\ q_dstack = <<>>
    /\ q_ub = FALSE
    /\ q_pending = <<>>
    /\ q_emptied = FALSE

\* push: new_tail = Box::new(Node{elem, next: None}); raw_tail = &mut *new_tail;
\* if !tail.is_null() { (*tail).next = Some(new_tail) } else { head = Some(new_tail) }
\* tail = raw_tail.
\* The store through tail lands in the cell tail addresses.  When that cell
\* has been freed the store is undefined behaviour: it is flagged in q_ub and
\* either vanishes or leaves its bits in the freed cell.
\* push that sets the tail only when the list was empty.
fifth_push_tail_stale(tail, raw_tail) == IF tail = NULL THEN raw_tail ELSE tail

\* self.tail = raw_tail, the address of the node just allocated.
fifth_push_tail(tail, raw_tail) == raw_tail

fifth_push(e) ==
    /\ q_pc = "idle"
    /\ \E a \in FreeAddrs(q_heap) :
        LET h1 == [q_heap EXCEPT ![a] = Node(e, NULL)] IN
        /\ \E h2 \in IF q_tail = NULL THEN {h1}
                     ELSE IF h1[q_tail].live
                          THEN {[h1 EXCEPT ![q_tail].next = a]}
                          ELSE {h1, [h1 EXCEPT ![q_tail].next = a]} :
              q_heap' = h2
        /\ q_head' = IF q_tail = NULL THEN a ELSE q_head
        /\ q_ub' = (q_ub \/ (q_tail # NULL /\ ~h1[q_tail].live))
        /\ q_tail' = fifth_push_tail(q_tail, a)
    /\ q_pending' = Append(q_pending, e)
    /\ UNCHANGED <<q_ret, q_pc, q_dstack, q_emptied>>

\* pop that never clears the tail pointer.
fifth_pop_tail_kept(tail, new_head) == tail

\* The tail pointer pop leaves behind, given the old tail and the new head:
\* if self.head.is_none() { self.tail = ptr::null_mut(); }
fifth_pop_tail(tail, new_head) == IF new_head = NULL THEN NULL ELSE tail

\* pop: self.head.take().map(|head| { let head = *head; self.head = head.next;
\*        if self.head.is_none() { self.tail = null } head.elem })
fifth_pop ==
    /\ q_pc = "idle"
    /\ IF q_head = NULL
       THEN /\ q_ret' = None
            /\ UNCHANGED <<q_heap, q_head, q_tail>>
       ELSE /\ q_ret' = Some(q_heap[q_head].elem)
            /\ q_head' = q_heap[q_head].next
            /\ q_heap' = [q_heap EXCEPT ![q_head] = FreeCell]
            /\ q_tail' = fifth_pop_tail(q_tail, q_heap[q_head].next)
    /\ q_pending' = IF q_pending = <<>> THEN <<>> ELSE Tail(q_pending)
    /\ q_emptied' = (q_emptied \/ (q_head # NULL /\ q_heap[q_head].next = NULL))
    /\ UNCHANGED <<q_pc, q_dstack, q_ub>>

\* fifth.rs has no impl Drop: when the list goes out of scope the compiler's
\* glue drops the fields.  head: Option<Box<Node>> runs the destructor of the
\* head node; tail is a raw pointer and owns nothing.
fifth_drop ==
    /\ q_pc = "idle"
    /\ q_pc' = "drop_glue"
    /\ q_dstack' = IF q_head = NULL THEN <<>> ELSE <<q_head>>
    /\ q_head' = NULL
    /\ UNCHANGED <<q_heap, q_tail, q_ret, q_ub, q_pending, q_emptied>>

\* Destructor of Box<Node>, one step of the innermost frame (as second_box_glue).
fifth_box_glue ==
    /\ q_dstack # <<>>
    /\ LET n == Last(q_dstack) IN
        IF q_heap[n].next # NULL
        THEN /\ q_dstack' = Append(q_dstack, q_heap[n].next)
             /\ q_heap' = [q_heap EXCEPT ![n].next = NULL]
        ELSE /\ q_dstack' = Front(q_dstack)
             /\ q_heap' = [q_heap EXCEPT ![n] = FreeCell]
    /\ UNCHANGED <<q_head, q_tail, q_ret, q_pc, q_ub, q_pending, q_emptied>>

\* The dropped list is gone; the program makes a fresh one with List::new().
fifth_renew ==
    /\ q_pc = "drop_glue"
    /\ q_dstack = <<>>
    /\ q_tail' = NULL
    /\ q_ret' = None
    /\ q_pc' = "idle"
    /\ q_ub' = FALSE
    /\ q_pending' = <<>>
    /\ q_emptied' = FALSE
    /\ UNCHANGED <<q_heap, q_head, q_dstack>>

NextDeque ==
    /\ \/ \E e \in Elem : fifth_push(e)
       \/ fifth_pop
       \/ fifth_drop
       \/ fifth_box_glue
       \/ fifth_renew
    /\ UNCHANGED <<s_vars, p_vars>>

(***************************************************************************)
(* third.rs: the persistent list on Rc<Node>                               *)
(***************************************************************************)
ListId == 1..MaxLists
RcAddr == 1..MaxCells

\* A cell of the persistent list: Rc<Node> with its strong count.
RcNode(e, n) == [live |-> TRUE, elem |-> e, next |-> n, strong |-> 1]
FreeRc == [live |-> FALSE, elem |-> 0, next |-> NULL, strong |-> 0]

\* The value of p_pre while no tail() is running.
NoCall == [head |-> NULL, heap |-> [a \in RcAddr |-> FreeRc]]

\* let list = List::new(): one empty list value exists.
third_init ==
    /\ p_heap = [a \in RcAddr |-> FreeRc]
    /\ p_lists = {1}
    /\ p_head = [l \in ListId |-> NULL]
    /\ p_pc = "idle"
    /\ p_cur = NULL
    /\ p_self = NULL
    /\ p_rel = NULL
    /\ p_dstack = <<>>
    /\ p_abs = [l \in ListId |-> <<>>]
    /\ p_pre = NoCall

\* Where Rc::new puts the node.  No code of third.rs observes the address of
\* an Rc cell, so the free cells are interchangeable and the lowest is taken.
RcAlloc(heap) == {a \in FreeAddrs(heap) : \A b \in FreeAddrs(heap) : a <= b}

\* The name of the next list value.  List values are told apart only by the
\* variable that holds them, so the lowest unused name is taken.
NewList(lists) == {l \in ListId \ lists : \A m \in ListId \ lists : l <= m}

\* List::new(): List { head: None }, one more empty list value.
third_new(dst) ==
    /\ p_pc = "idle"
    /\ dst \in NewList(p_lists)
    /\ p_lists' = p_lists \cup {dst}
    /\ p_head' = [p_head EXCEPT ![dst] = NULL]
    /\ p_abs' = [p_abs EXCEPT ![dst] = <<>>]
    /\ UNCHANGED <<p_heap, p_pc, p_cur, p_self, p_rel, p_dstack, p_pre>>

\* A clone that does not count the new handle.
rc_clone_uncounted(heap, l) == heap

\* Option<Rc<Node>>::clone: a second handle to the same cell, strong + 1.
rc_clone(heap, l) ==
    IF l = NULL THEN heap ELSE [heap EXCEPT ![l].strong = @ + 1]

\* prepend: List { head: Some(Rc::new(Node { elem, next: self.head.clone() })) }
third_prepend(src, dst, e) ==
    /\ p_pc = "idle"
    /\ src \in p_lists
    /\ dst \in NewList(p_lists)
    /\ \E a \in RcAlloc(p_heap) :
        /\ p_heap' = [rc_clone(p_heap, p_head[src]) EXCEPT ![a] = RcNode(e, p_head[src])]
        /\ p_head' = [p_head EXCEPT ![dst] = a]
    /\ p_lists' = p_lists \cup {dst}
    /\ p_abs' = [p_abs EXCEPT ![dst] = <<e>> \o p_abs[src]]
    /\ UNCHANGED <<p_pc, p_cur, p_self, p_rel, p_dstack, p_pre>>

\* head: self.head.as_ref().map(|node| &node.elem)
third_head(l) == IF p_head[l] = NULL THEN None ELSE Some(p_heap[p_head[l]].elem)

\* A tail that hands out the head node instead of its successor.
third_tail_link_same(heap, head) == head

\* self.head.as_ref().and_then(|e| e.next.clone()), the link only.
third_tail_link(heap, head) == IF head = NULL THEN NULL ELSE heap[head].next

\* A tail that forgets its temporary b without releasing it.
third_tail_drop_b_forgotten(b) == NULL

\* The handle released when tail returns: the local b goes out of scope.
third_tail_drop_b(b) == b

\* tail: b and c are two clones of the second node's handle; c becomes the
\* head of the returned list and b is dropped when tail returns.
third_tail(src, dst) ==
    /\ p_pc = "idle"
    /\ src \in p_lists
    /\ dst \in NewList(p_lists)
    /\ LET b == third_tail_link(p_heap, p_head[src])
           h1 == rc_clone(p_heap, b)
           c == third_tail_link(h1, p_head[src])
           h2 == rc_clone(h1, c)
       IN /\ p_heap' = h2
          /\ p_head' = [p_head EXCEPT ![dst] = c]
          /\ p_rel' = third_tail_drop_b(b)
    /\ p_lists' = p_lists \cup {dst}
    /\ p_abs' = [p_abs EXCEPT ![dst] = IF p_abs[src] = <<>> THEN <<>> ELSE Tail(p_abs[src])]
    /\ p_pc' = "tail"
    /\ p_pre' = [head |-> p_head[src], heap |-> p_heap]
    /\ UNCHANGED <<p_cur, p_self, p_dstack>>

\* Rc::drop of the handle in p_rel: strong - 1, and at zero the destructor of
\* the node starts.
third_rc_drop ==
    /\ p_rel # NULL
    /\ p_heap' = [p_heap EXCEPT ![p_rel].strong = @ - 1]
    /\ p_dstack' = IF p_heap[p_rel].strong = 1 THEN Append(p_dstack, p_rel) ELSE p_dstack
    /\ p_rel' = NULL
    /\ UNCHANGED <<p_lists, p_head, p_pc, p_cur, p_self, p_abs, p_pre>>

\* Destructor of Node, one step of the innermost frame: drop the field next
\* (an Rc::drop of that handle) or, once next is empty, free the cell.
third_node_glue ==
    /\ p_rel = NULL
    /\ p_dstack # <<>>
    /\ LET n == Last(p_dstack) IN
        IF p_heap[n].next # NULL
        THEN /\ p_rel' = p_heap[n].next
             /\ p_heap' = [p_heap EXCEPT ![n].next = NULL]
             /\ UNCHANGED p_dstack
        ELSE /\ p_dstack' = Front(p_dstack)
             /\ p_heap' = [p_heap EXCEPT ![n] = FreeRc]
             /\ UNCHANGED p_rel
    /\ UNCHANGED <<p_lists, p_head, p_pc, p_cur, p_self, p_abs, p_pre>>

\* tail or drop returns to the caller once its releases are done.
third_return ==
    /\ p_pc \in {"tail", "drop_exit"}
    /\ p_rel = NULL
    /\ p_dstack = <<>>
    /\ p_pc' = "idle"
    /\ p_pre' = NoCall
    /\ UNCHANGED <<p_heap, p_lists, p_head, p_cur, p_self, p_rel, p_dstack, p_abs>>

\* Drop::drop that does not take the head: the chain is left to the field glue.
third_drop_take_none(head) == <<NULL, head>>

\* Drop::drop entry: let mut head = self.head.take();  gives <<head, self.head>>
third_drop_take(head) == <<head, NULL>>

\* A list value goes out of scope: Drop::drop begins.
third_drop_start(l) ==
    /\ p_pc = "idle"
    /\ l \in p_lists
    /\ LET t == third_drop_take(p_head[l]) IN
        /\ p_cur' = t[1]
        /\ p_self' = t[2]
    /\ p_lists' = p_lists \ {l}
    /\ p_head' = [p_head EXCEPT ![l] = NULL]
    /\ p_abs' = [p_abs EXCEPT ![l] = <<>>]
    /\ p_pc' = "drop_loop"
    /\ UNCHANGED <<p_heap, p_rel, p_dstack, p_pre>>

\* A try_unwrap that succeeds whatever the count.
third_try_unwrap_always(heap, n) == TRUE

\* Rc::try_unwrap(node) is Ok exactly when this is the only strong handle.
third_try_unwrap(heap, n) == heap[n].strong = 1

\* while let Some(node) = head { if let Ok(mut node) = Rc::try_unwrap(node)
\*   { head = node.next.take(); } else { break; } }   one iteration.
\* Ok: the node is moved out of its Rc, next is taken, the node is destroyed
\* at the end of the block.  Err: the loop is left and the handle held by
\* the Err value is released by Rc::drop.  With no node left the function
\* ends and the compiler's glue drops the field self.head.
third_drop_loop ==
    /\ p_pc = "drop_loop"
    /\ p_rel = NULL
    /\ p_dstack = <<>>
    /\ IF p_cur = NULL
       THEN /\ p_pc' = "drop_exit"
            /\ p_rel' = p_self
            /\ p_self' = NULL
            /\ UNCHANGED <<p_heap, p_cur, p_dstack>>
       ELSE IF third_try_unwrap(p_heap, p_cur)
       THEN /\ p_cur' = p_heap[p_cur].next
            /\ p_heap' = [p_heap EXCEPT ![p_cur].next = NULL, ![p_cur].strong = 0]
            /\ p_dstack' = <<p_cur>>
            /\ UNCHANGED <<p_pc, p_rel, p_self>>
       ELSE /\ p_cur' = NULL
            /\ p_rel' = p_cur
            /\ UNCHANGED <<p_heap, p_pc, p_self, p_dstack>>
    /\ UNCHANGED <<p_lists, p_head, p_abs, p_pre>>

NextPersistent ==
    /\ \/ \E dst \in ListId : third_new(dst)
       \/ \E src, dst \in ListId, e \in Elem : third_prepend(src, dst, e)
       \/ \E src, dst \in ListId : third_tail(src, dst)
       \/ \E l \in ListId : third_drop_start(l)
       \/ third_drop_loop
       \/ third_rc_drop
       \/ third_node_glue
       \/ third_return
    /\ UNCHANGED <<s_vars, q_vars>>

vars == <<s_vars, q_vars, p_vars>>

Init == second_new /\ fifth_new /\ third_init

SpecStack == Init /\ [][NextStack]_vars
SpecDeque == Init /\ [][NextDeque]_vars
SpecPersistent == Init /\ [][NextPersistent]_vars

\* A program that works with one of the three list types: the lists of the
\* other two modules stay as new() made them.
NextLists ==
    \/ fifth_new /\ third_init /\ NextStack
    \/ second_new /\ third_init /\ NextDeque
    \/ second_new /\ fifth_new /\ NextPersistent

SpecLists == Init /\ [][NextLists]_vars

(***************************************************************************)
(* Properties of second.rs and fifth.rs                                    *)
(***************************************************************************)
StackElems == Walk(s_heap, s_head, MaxNodes + 1)
DequeElems == Walk(q_heap, q_head, MaxNodes + 1)
DequeChain == Chain(q_heap, q_head, MaxNodes + 1)

\* C1: the stack is LIFO.  Every pop returns the most recently pushed element
\* not yet popped, or None when there is none, and between operations the
\* chain from head holds the unpopped elements, newest first.
C1_StackLifo ==
    /\ [](s_pc = "idle" => StackElems = Reverse(s_pending))
    /\ [][second_pop =>
            s_ret' = IF s_pending = <<>> THEN None ELSE Some(Last(s_pending))]_vars

\* A pop has returned 1 while an older 2 is still on the stack.
C1_Witness == s_pc = "idle" /\ s_ret = Some(1) /\ s_pending = <<2>>

\* C2: the queue is FIFO.  Every pop returns the oldest pushed element not yet
\* popped, or None when there is none, also after the list was emptied and
\* refilled; between operations the chain from head holds the unpopped
\* elements, oldest first.
C2_DequeFifo ==
    /\ [](q_pc = "idle" => DequeElems = q_pending)
    /\ [][fifth_pop =>
            q_ret' = IF q_pending = <<>> THEN None ELSE Some(Head(q_pending))]_vars

\* After the list was emptied once, a pop has returned 1 with a newer 2 left.
C2_Witness == q_pc = "idle" /\ q_emptied /\ q_ret = Some(1) /\ q_pending = <<2>>

\* C3: between operations the tail pointer is null exactly when head is None,
\* and otherwise addresses a live node, the last of the chain owned by head,
\* whose next is None.
C3_TailInvariant ==
    q_pc = "idle" =>
        /\ (q_tail = NULL) <=> (q_head = NULL)
        /\ q_tail # NULL =>
            /\ q_heap[q_tail].live
            /\ q_heap[q_tail].next = NULL
            /\ Len(DequeChain) <= MaxNodes
            /\ q_tail = Last(DequeChain)

\* A pop has completed on a list that still has two nodes, tail behind head.
C3_Witness ==
    /\ q_pc = "idle" /\ q_ret # None
    /\ q_head # NULL /\ q_heap[q_head].next = q_tail /\ q_tail # NULL

\* C7: a pop that removes the only node clears the tail pointer in that pop;
\* the next push then installs its node as head without storing through the
\* old tail, the list holds exactly that element, and the pop of a
\* one-element list returns it.
C7_EmptyRefill ==
    [][/\ (fifth_pop /\ q_head # NULL /\ q_heap[q_head].next = NULL)
            => (q_tail' = NULL /\ q_head' = NULL)
       /\ \A e \in Elem :
            (fifth_push(e) /\ q_emptied /\ q_head = NULL)
            => /\ q_head' # NULL
               /\ q_head' = q_tail'
               /\ ~q_ub'
               /\ \A a \in Addr : a # q_head' => q_heap'[a] = q_heap[a]
               /\ Walk(q_heap', q_head', MaxNodes + 1) = <<e>>
       /\ \A e \in Elem :
            (fifth_pop /\ DequeElems = <<e>>) => q_ret' = Some(e)]_vars

\* A pop emptied the list and a later push made its node the sole element.
C7_Witness ==
    /\ q_pc = "idle" /\ q_emptied /\ ~q_ub
    /\ q_head # NULL /\ q_head = q_tail /\ DequeElems = <<1>>

\* C8: destroying a queue nests node destructors no deeper than a constant
\* (one frame, as the loop of the stack's Drop does), whatever its length.
C8_DequeDropDepth == Len(q_dstack) <= 1

\* C9: destroying a stack runs one node destructor at a time, each on a node
\* whose next has already been taken out, and leaves nothing to the field glue.
C9_StackDropDepth ==
    /\ Len(s_dstack) <= 1
    /\ \A i \in 1..Len(s_dstack) : s_heap[s_dstack[i]].next = NULL
    /\ s_pc = "drop_glue" => s_dstack = <<>>

\* The loop is destroying the first node of a chain of at least three.
C9_Witness ==
    /\ s_pc = "drop_loop" /\ Len(s_dstack) = 1
    /\ s_elem # NULL /\ s_heap[s_elem].next # NULL

(***************************************************************************)
(* Properties of third.rs                                                  *)
(***************************************************************************)
\* The elements a list value shows through head() and repeated tail().
ListElems(l) == Walk(p_heap, p_head[l], MaxCells + 1)

\* The cells on the chain of some list value that exists.
SharedCells ==
    UNION {LET c == Chain(p_heap, p_head[l], MaxCells + 1)
           IN {c[i] : i \in 1..Len(c)} : l \in p_lists}

InDrop == p_pc \in {"drop_loop", "drop_exit"}

\* C4: dropping a list value never destroys a node on the chain of a list
\* value that still exists; the loop of drop leaves at the first node that
\* has another handle, only releases its own handle to it (the count stays
\* above zero) and changes nothing else on that node or its suffix.
C4_DropKeepsShared ==
    /\ [](\A n \in SharedCells :
            /\ p_heap[n].live
            /\ p_heap[n].strong >= 1
            /\ \A i \in 1..Len(p_dstack) : p_dstack[i] # n)
    /\ [][/\ (p_pc = "drop_loop" /\ p_rel = NULL /\ p_dstack = <<>>
              /\ p_cur # NULL /\ p_heap[p_cur].strong > 1)
             => (p_cur' = NULL /\ p_rel' = p_cur /\ p_heap' = p_heap)
          /\ InDrop =>
               \A n \in SharedCells :
                 \/ p_heap'[n] = p_heap[n]
                 \/ /\ n = p_rel
                    /\ p_heap'[n] = [p_heap[n] EXCEPT !.strong = @ - 1]
                    /\ p_heap'[n].strong >= 1]_vars

\* The loop of drop is destroying a node it owned alone, and the node it
\* meets next is held by a list value that still exists.
C4_Witness ==
    /\ p_pc = "drop_loop" /\ Len(p_dstack) = 1
    /\ p_cur # NULL /\ p_heap[p_cur].strong > 1 /\ p_cur \in SharedCells

\* C5: a list value built from new() by prepend and tail denotes the sequence
\* those operations define (prepend puts its element first, tail removes the
\* first element, tail of the empty list is empty), and head() returns the
\* first element of that sequence, or None when it is empty.
C5_HeadTailLaws ==
    \A l \in p_lists :
        /\ third_head(l) = IF p_abs[l] = <<>> THEN None ELSE Some(Head(p_abs[l]))
        /\ (p_abs[l] = <<>>) <=> (p_head[l] = NULL)

\* tail() has just returned the list <<1>> taken from a list 2, 1, and some
\* list value is the empty tail.
C5_Witness ==
    /\ p_pc = "tail" /\ p_rel # NULL
    /\ \E l, m \in p_lists :
        /\ p_abs[l] = <<2, 1>> /\ third_head(l) = Some(2)
        /\ p_head[m] = p_rel /\ third_head(m) = Some(1) /\ p_abs[m] = <<1>>

C10_PersistentDropDepth ==
    /\ Len(p_dstack) <= 1
    /\ \A i \in 1..Len(p_dstack) : p_heap[p_dstack[i]].next = NULL
    /\ p_rel # NULL => p_heap[p_rel].strong >= 2
    /\ p_pc = "drop_exit" => (p_rel = NULL /\ p_dstack = <<>>)

\* The loop is destroying the first node of a chain it owns alone, with a
\* further node of that chain still to destroy.
C10_Witness ==
    /\ p_pc = "drop_loop" /\ Len(p_dstack) = 1
    /\ p_cur # NULL /\ p_heap[p_cur].strong = 1

\* The handles that hold cell n directly: list values whose head is n, live
\* nodes whose next is n, and the locals of a running tail or drop (the loop
\* variable head, the field self.head, a handle being released).
ListHolders(n) == Cardinality({l \in p_lists : p_head[l] = n})
NodeHolders(n) == Cardinality({m \in RcAddr : p_heap[m].live /\ p_heap[m].next = n})
LocalHolders(n) ==
    (IF p_cur = n THEN 1 ELSE 0) + (IF p_self = n THEN 1 ELSE 0)
        + (IF p_rel = n THEN 1 ELSE 0)

\* The cells on the chain that starts at handle h.
Reach(h) ==
    LET c == Chain(p_heap, h, MaxCells + 1) IN {c[i] : i \in 1..Len(c)}

\* The list values and locals from whose handle n is reachable.
PathHolders(n) ==
    Cardinality({l \in p_lists : n \in Reach(p_head[l])})
        + (IF n \in Reach(p_cur) THEN 1 ELSE 0)
        + (IF n \in Reach(p_self) THEN 1 ELSE 0)
        + (IF n \in Reach(p_rel) THEN 1 ELSE 0)

\* C11 as stated: the reference count of every live node equals the number
\* of list values and internal temporaries that hold a path through the node.
C11_PathCount ==
    \A n \in RcAddr :
        (p_heap[n].live /\ p_heap[n].strong > 0) => p_heap[n].strong = PathHolders(n)

\* C11: in every reachable state the reference count of a live node equals
\* the number of handles that hold the node directly (list heads, next fields
\* of live nodes, internal temporaries); a node reached only through another
\* node is not counted.  A node whose destructor runs has count zero and no
\* holder, and so has a free cell.
C11_HandleCount ==
    \A n \in RcAddr :
        LET holders == ListHolders(n) + NodeHolders(n) + LocalHolders(n) IN
        IF p_heap[n].live /\ (\A i \in 1..Len(p_dstack) : p_dstack[i] # n)
        THEN p_heap[n].strong = holders /\ holders >= 1
        ELSE p_heap[n].strong = 0 /\ holders = 0

\* Two list values reach a node that only one handle holds, while tail holds
\* its temporary on another node.
C11_Witness ==
    /\ p_pc = "tail" /\ p_rel # NULL
    /\ \E n \in RcAddr :
        /\ p_heap[n].live /\ p_heap[n].strong = 1
        /\ Cardinality({l \in p_lists : n \in Reach(p_head[l])}) = 2

\* C20: between operations the reference count of a live node equals the
\* number of list values whose head it is plus the number of live nodes whose
\* next it is, a cell is live exactly when that number is not zero, and no
\* step destroys a node whose count is not zero.
C20_DirectHolders ==
    /\ [](p_pc = "idle" =>
            \A n \in RcAddr :
                /\ p_heap[n].live => p_heap[n].strong = ListHolders(n) + NodeHolders(n)
                /\ p_heap[n].live <=> ListHolders(n) + NodeHolders(n) >= 1)
    /\ [][\A n \in RcAddr :
            (p_heap[n].live /\ ~p_heap'[n].live) => p_heap[n].strong = 0]_vars

\* Between operations one node is held by a list value and by another node,
\* and one node is held by a node only.
C20_Witness ==
    /\ p_pc = "idle"
    /\ \E n \in RcAddr :
        /\ p_heap[n].live /\ p_heap[n].strong = 2
        /\ ListHolders(n) = 1 /\ NodeHolders(n) = 1
    /\ \E m \in RcAddr :
        /\ p_heap[m].live /\ p_heap[m].strong = 1
        /\ ListHolders(m) = 0 /\ NodeHolders(m) = 1

(***************************************************************************)
(* Properties of the owned lists, second.rs and fifth.rs together          *)
(***************************************************************************)
StackChain == Chain(s_heap, s_head, MaxNodes + 1)

\* The owning handles of cell n: the head field, the next field of a live
\* node, and while a list is being dropped the local elem and the
\* destructor frames, which hold the box they destroy.
StackOwners(n) ==
    (IF s_head = n THEN 1 ELSE 0)
        + Cardinality({m \in Addr : s_heap[m].live /\ s_heap[m].next = n})
        + (IF s_elem = n THEN 1 ELSE 0)
        + Cardinality({i \in 1..Len(s_dstack) : s_dstack[i] = n})

DequeOwners(n) ==
    (IF q_head = n THEN 1 ELSE 0)
        + Cardinality({m \in Addr : q_heap[m].live /\ q_heap[m].next = n})
        + Cardinality({i \in 1..Len(q_dstack) : q_dstack[i] = n})

\* The sequence c has no address twice and is shorter than the hop limit.
Acyclic(c) ==
    /\ Len(c) <= MaxNodes
    /\ \A i, j \in 1..Len(c) : i # j => c[i] # c[j]

StackInDrop == s_pc \in {"drop_loop", "drop_glue"}
DequeInDrop == q_pc = "drop_glue"

\* C12: every live node of the stack and of the queue has exactly one owner
\* and a free cell has none; the chain from head is acyclic and finite; while
\* the list is not being dropped the owner is the head or the next of a live
\* node and the live nodes are exactly the nodes of the chain; the tail
\* pointer of the queue is null or addresses a live node that has its one
\* owner besides it.
C12_SingleOwner ==
    /\ \A n \in Addr :
        /\ StackOwners(n) = (IF s_heap[n].live THEN 1 ELSE 0)
        /\ DequeOwners(n) = (IF q_heap[n].live THEN 1 ELSE 0)
    /\ Acyclic(StackChain) /\ Acyclic(DequeChain)
    /\ ~StackInDrop =>
        /\ s_elem = NULL /\ s_dstack = <<>>
        /\ {n \in Addr : s_heap[n].live} = {StackChain[i] : i \in 1..Len(StackChain)}
    /\ ~DequeInDrop =>
        /\ q_dstack = <<>>
        /\ {n \in Addr : q_heap[n].live} = {DequeChain[i] : i \in 1..Len(DequeChain)}
        /\ q_tail # NULL => (q_heap[q_tail].live /\ DequeOwners(q_tail) = 1)

\* A queue that was emptied and refilled holds two nodes or more; the tail
\* pointer addresses a node that the next field of another node owns.
C12_Witness ==
    /\ q_pc = "idle" /\ q_emptied /\ Len(DequeChain) >= 2
    /\ q_tail # NULL /\ q_tail # q_head
    /\ \E m \in Addr : q_heap[m].live /\ q_heap[m].next = q_tail

\* C13: on a non-empty stack a value written through peek_mut is what the
\* next peek and the next pop return, and the write changes the element of
\* the head node only: head, the chain of nodes and every other cell stay.
C13_PeekMutWrite ==
    [][\A v \in Elem :
        (second_peek_mut(v) /\ s_head # NULL) =>
            /\ second_peek_result(s_heap', s_head') = Some(v)
            /\ second_pop_result(s_heap', s_head')[1] = Some(v)
            /\ s_head' = s_head
            /\ Chain(s_heap', s_head', MaxNodes + 1) = StackChain
            /\ s_heap'[s_head].next = s_heap[s_head].next
            /\ \A n \in Addr \ {s_head} : s_heap'[n] = s_heap[n]]_vars

\* peek_mut has written 2 over the head of a stack of three elements.
C13_Witness ==
    /\ s_pc = "idle" /\ s_ret = Some(2)
    /\ StackElems = <<2, 1, 1>> /\ s_pending = <<1, 1, 2>>

\* C14: on an empty list pop, peek and peek_mut of the stack and pop of the
\* queue return None and leave the list empty, with the tail of the queue
\* null, and head of an empty persistent list is None; fresh or emptied.
C14_EmptyQueries ==
    /\ [][/\ (s_head = NULL /\ (second_pop \/ second_peek \/ \E v \in Elem : second_peek_mut(v)))
             => (s_ret' = None /\ s_head' = NULL /\ s_heap' = s_heap)
          /\ (q_head = NULL /\ fifth_pop)
             => (q_ret' = None /\ q_head' = NULL /\ q_tail' = NULL
                 /\ q_tail = NULL /\ q_heap' = q_heap)]_vars
    /\ [](\A l \in p_lists : p_head[l] = NULL => third_head(l) = None)

\* The queue was emptied by pops and a further pop has returned None.
C14_Witness ==
    /\ q_pc = "idle" /\ q_emptied /\ q_ret = None
    /\ q_head = NULL /\ q_tail = NULL /\ q_pending = <<>>

\* The elements of the nodes in the sequence c.
ElemsOf(heap, c) == [i \in 1..Len(c) |-> heap[c[i]].elem]

\* C15: an iterator from iter() yields the nodes of the chain from head in
\* head-to-last order: what it has yielded followed by what it has still to
\* yield is the chain; each call returns the element of the node it yields;
\* when it returns None it has yielded every node; and no step taken while
\* the iterator lives changes the list.
C15_IterOrder ==
    /\ [](s_pc = "iter" =>
            /\ s_refs \o Chain(s_heap, s_iter, MaxNodes + 1) = StackChain
            /\ (s_refs # <<>> /\ ~s_done) => s_ret = Some(s_heap[Last(s_refs)].elem)
            /\ s_done => (s_ret = None /\ s_refs = StackChain
                          /\ ElemsOf(s_heap, s_refs) = Reverse(s_pending)))
    /\ [][(s_pc = "iter" \/ s_pc' = "iter") =>
            (s_heap' = s_heap /\ s_head' = s_head)]_vars

\* After pushes 1, 1, 2 the iterator has yielded 2, 1, 1 and then None.
C15_Witness ==
    /\ s_pc = "iter" /\ s_done /\ s_ret = None
    /\ s_pending = <<1, 1, 2>> /\ ElemsOf(s_heap, s_refs) = <<2, 1, 1>>
    /\ StackElems = <<2, 1, 1>>

\* C16: iter() called after an earlier iterator of the same list was
\* exhausted starts at the current head with nothing yielded, and when it
\* returns None it has yielded the whole current content of the list.
C16_IterRestart ==
    /\ [][(s_exhausted /\ s_pc = "idle" /\ s_pc' = "iter") =>
            (s_iter' = s_head' /\ s_refs' = <<>> /\ ~s_done')]_vars
    /\ []((s_exhausted /\ s_pc = "iter" /\ s_done) =>
            (s_iter = NULL /\ ElemsOf(s_heap, s_refs) = StackElems))

\* A second iterator, made after the first returned None, is half way
\* through a list of three.
C16_Witness ==
    /\ s_exhausted /\ s_pc = "iter" /\ ~s_done
    /\ Len(s_refs) = 2 /\ s_iter # NULL /\ s_refs[1] = s_head

\* The values repeated pop calls return until the first None, at most k.
RECURSIVE PopAll(_, _, _)
PopAll(heap, head, k) ==
    LET r == second_pop_result(heap, head) IN
    IF r[1] = None \/ k = 0 THEN <<>>
    ELSE <<r[1][1]>> \o PopAll(r[3], r[2], k - 1)

\* C17: `for el in list` yields what repeated pop would return: at every
\* turn the values yielded so far followed by what pop would still return is
\* the same sequence, which at the start is what pop would return from the
\* whole list; the loop ends with the list empty and every node freed.
C17_IntoIterIsPop ==
    /\ [][/\ (s_pc = "idle" /\ s_pc' = "into_iter") =>
               (s_vals' = <<>> /\ s_head' = s_head /\ s_heap' = s_heap)
          /\ s_pc = "into_iter" =>
               s_vals' \o PopAll(s_heap', s_head', MaxNodes + 1)
                   = s_vals \o PopAll(s_heap, s_head, MaxNodes + 1)]_vars
    /\ [](s_pc = "for_done" =>
            /\ s_ret = None /\ s_head = NULL
            /\ \A n \in Addr : ~s_heap[n].live)

\* The loop over a list built by pushes 1, 2, 2 has yielded 2, 2, 1 and ended.
C17_Witness ==
    /\ s_pc = "for_done" /\ s_vals = <<2, 2, 1>> /\ s_head = NULL

\* C18: push_back(x) on a list e1..en ends its walk at the last node within
\* n iterations and leaves the list e1..en, x: the nodes that were there keep
\* their place and their element, and on an empty list x is the head.
C18_PushBack ==
    [][\A e \in Elem :
        second_push_back(e) =>
            /\ Walk(s_heap', s_head', MaxNodes + 1) = StackElems \o <<e>>
            /\ SubSeq(Chain(s_heap', s_head', MaxNodes + 1), 1, Len(StackChain)) = StackChain
            /\ s_head # NULL =>
                 /\ s_head' = s_head
                 /\ s_heap[push_back_walk(s_heap, s_head, Len(StackChain))].next = NULL
            /\ s_head = NULL => Walk(s_heap', s_head', MaxNodes + 1) = <<e>>]_vars

\* push_back has put 2 behind 1, 1 that were pushed to the front.
C18_Witness ==
    /\ s_pc = "idle" /\ StackElems = <<1, 1, 2>> /\ s_pending = <<2, 1, 1>>

\* C19: an iterator from iter_mut() yields each node of the chain once, in
\* head-to-last order (no node twice), then None; a write through the i-th
\* yielded reference changes the i-th element of the list and nothing else.
C19_IterMutUnique ==
    /\ [](s_pc = "iter_mut" =>
            /\ s_refs \o Chain(s_heap, s_iter, MaxNodes + 1) = StackChain
            /\ \A i, j \in 1..Len(s_refs) : i # j => s_refs[i] # s_refs[j]
            /\ s_done => (s_ret = None /\ s_refs = StackChain))
    /\ [][\A i \in 1..MaxNodes, v \in Elem :
            second_write(i, v) =>
                /\ s_head' = s_head
                /\ Chain(s_heap', s_head', MaxNodes + 1) = StackChain
                /\ Walk(s_heap', s_head', MaxNodes + 1) = [StackElems EXCEPT ![i] = v]]_vars

\* iter_mut has yielded two nodes of three; the second held 1 when it was
\* yielded and holds 2 now, written through its reference, and the first
\* still holds 1.
C19_Witness ==
    /\ s_pc = "iter_mut" /\ ~s_done /\ Len(s_refs) = 2 /\ s_iter # NULL
    /\ s_ret = Some(1) /\ s_heap[s_refs[2]].elem = 2 /\ s_heap[s_refs[1]].elem = 1

\* The cells that hold a node.
LiveCells == {n \in RcAddr : p_heap[n].live}

\* C21: the persistent list neither leaks nor destroys twice.  When every
\* list value has been dropped and the last drop has returned, no node is
\* left; a node whose destructor runs is a live node, met once; a step
\* destroys only the node of the innermost destructor (so one at a time), a
\* live node with count zero that no list value, node or local holds, and
\* Rc::new never takes the cell of a live node.
C21_NoLeakNoDouble ==
    /\ []((p_lists = {} /\ p_pc = "idle") => \A n \in RcAddr : p_heap[n] = FreeRc)
    /\ [](/\ \A i \in 1..Len(p_dstack) : p_heap[p_dstack[i]].live
          /\ \A i, j \in 1..Len(p_dstack) : i # j => p_dstack[i] # p_dstack[j]
          /\ \A n \in RcAddr : ~p_heap[n].live => p_heap[n] = FreeRc)
    /\ [][\A n \in RcAddr :
            /\ (p_heap[n].live /\ ~p_heap'[n].live) =>
                  /\ p_dstack # <<>> /\ n = Last(p_dstack)
                  /\ p_heap[n].strong = 0 /\ p_heap[n].next = NULL
                  /\ ListHolders(n) + NodeHolders(n) + LocalHolders(n) = 0
            /\ (~p_heap[n].live /\ p_heap'[n].live) => p_heap[n] = FreeRc]_vars

\* The last list value is being dropped: the loop is destroying the head
\* node of a chain of two that no other handle holds any more.
C21_Witness ==
    /\ p_lists = {} /\ p_pc = "drop_loop" /\ Len(p_dstack) = 1
    /\ p_cur # NULL /\ p_heap[p_cur].strong = 1 /\ p_heap[p_cur].next = NULL
    /\ LiveCells = {p_dstack[1], p_cur}

\* The second node of the list tail() was called on, as the call found it.
PreSecond == IF p_pre.head = NULL THEN NULL ELSE p_pre.heap[p_pre.head].next

\* C22: tail() takes two handles to the second node of its receiver, so on
\* entry that count is two higher; when tail returns the count is one higher
\* than the call found it and every other cell, and every other field of
\* that node, is as the call found it: no node was destroyed and none was
\* made.  With no second node (empty or single-node receiver) the heap is
\* unchanged throughout.  No node destructor runs inside tail.
C22_TailNetCount ==
    [][/\ (p_pc = "idle" /\ p_pc' = "tail") =>
            \A n \in RcAddr :
                p_heap'[n] = IF n = PreSecond'
                             THEN [p_heap[n] EXCEPT !.strong = @ + 2]
                             ELSE p_heap[n]
       /\ p_pc' = "tail" => p_dstack' = <<>>
       /\ (p_pc = "tail" /\ p_pc' = "idle") =>
            \A n \in RcAddr :
                p_heap'[n] = IF n = PreSecond
                             THEN [p_pre.heap[n] EXCEPT !.strong = @ + 1]
                             ELSE p_pre.heap[n]]_vars

\* tail() on a list of two nodes has released b and is about to return: the
\* second node, held before by the first node alone, has count 2.
C22_Witness ==
    /\ p_pc = "tail" /\ p_rel = NULL
    /\ PreSecond # NULL /\ p_pre.heap[PreSecond].strong = 1
    /\ p_heap[PreSecond].strong = 2
    /\ \E l \in p_lists : p_head[l] = PreSecond

====
